---- MODULE Spec2Model ----
(***************************************************************************)
(* Model of SPSC::SpscRing<T> (include/spsc_ring.h): a bounded             *)
(* single-producer/single-consumer ring of in-place constructed slots,     *)
(* with the BitOps capacity arithmetic its constructor uses.               *)
(*                                                                         *)
(* Spec      whole operations, called one after another on one ring.       *)
(* SpecConc  one producer thread and one consumer thread, interleaved at   *)
(*           the level of the individual loads, slot accesses and stores.  *)
(***************************************************************************)
EXTENDS Integers, Sequences, FiniteSets, TLC

\* ---------------------------------------------------------------- bounds
\* largest capacity handed to SpscRing(std::size_t)
MaxReq == 4
\* element values the callers push are 1..MaxVal
MaxVal == 2
\* pushes accepted over the ring's lifetime
MaxPush == 5
\* width, in bits, of std::size_t / std::uint64_t in the model
WordBits == 12

Word == 2 ^ WordBits
Values == 1 .. MaxVal
Requests == 0 .. MaxReq

\* ------------------------------------------------- unsigned word arithmetic
RECURSIVE BitAnd(_, _)
BitAnd(a, b) ==
    IF a = 0 \/ b = 0 THEN 0
    ELSE (a % 2) * (b % 2) + 2 * BitAnd(a \div 2, b \div 2)

RECURSIVE BitOr(_, _)
BitOr(a, b) ==
    IF a = 0 THEN b
    ELSE IF b = 0 THEN a
    ELSE (IF a % 2 = 1 \/ b % 2 = 1 THEN 1 ELSE 0) + 2 * BitOr(a \div 2, b \div 2)

\* v >> k on an unsigned word (a word has no bits at or above WordBits)
Shr(v, k) == IF k >= WordBits THEN 0 ELSE v \div (2 ^ k)

\* a - b and a + b on unsigned words (wrap modulo 2^WordBits)
WSub(a, b) == (a - b + Word) % Word
WAdd(a, b) == (a + b) % Word

\* ------------------------------------------------------------------ BitOps
\* v && ((v & (v - 1)) == 0)
isPow2(v) == v # 0 /\ BitAnd(v, WSub(v, 1)) = 0

\* variant: the --v before the bit smearing is missing
ceilPow2_no_decrement(v) ==
    IF v <= 1 THEN 1
    ELSE LET v0 == v
             v1 == BitOr(v0, Shr(v0, 1))
             v2 == BitOr(v1, Shr(v1, 2))
             v3 == BitOr(v2, Shr(v2, 4))
             v4 == BitOr(v3, Shr(v3, 8))
             v5 == BitOr(v4, Shr(v4, 16))
             v6 == BitOr(v5, Shr(v5, 32))
         IN  WAdd(v6, 1)

\* the #else branch: __cpp_lib_bitops_ (trailing underscore) is never defined
ceilPow2(v) ==
    IF v <= 1 THEN 1
    ELSE LET v0 == WSub(v, 1)
             v1 == BitOr(v0, Shr(v0, 1))
             v2 == BitOr(v1, Shr(v1, 2))
             v3 == BitOr(v2, Shr(v2, 4))
             v4 == BitOr(v3, Shr(v3, 8))
             v5 == BitOr(v4, Shr(v4, 16))
             v6 == BitOr(v5, Shr(v5, 32))
         IN  WAdd(v6, 1)

\* ------------------------------------------------------------ slot contents
\* raw bytes of a Slot that hold no object
Vacant == 0
\* a T object whose value has been moved out of it (still an object)
MovedFrom == -1

\* ------------------------------------------------------------------- state
VARIABLES
    cap_,        \* std::size_t cap_
    head_,       \* std::atomic<std::size_t> head_, latest value in modification order
    tail_,       \* std::atomic<std::size_t> tail_, latest value in modification order
    buffer_,     \* Slot *buffer_: slot index -> Vacant | MovedFrom | value
    destroyed,   \* ~SpscRing has run
    headSeen,    \* the value of head_ visible to the producer thread's acquire load
    tailSeen,    \* the value of tail_ visible to the consumer thread's acquire load
    requested,   \* the cap argument the constructor received
    viaDefault,  \* the ring was made by SpscRing()
    pushed,      \* history: values of the pushes that returned true
    popped,      \* history: values the pops that returned true wrote to out
    ctorCount,   \* std::construct_at calls made by the ring
    dtorCount,   \* std::destroy_at calls made by the ring
    vacantDtor,  \* std::destroy_at calls made on a slot holding no object
    ret,         \* the last completed call: its name, result, argument, source afterwards
    out,         \* the caller's T& out of try_pop
    pcP,         \* producer thread: position inside try_push / full
    p_v,         \* producer thread: const T& v
    p_tail,      \* producer thread: local tail
    p_tail_next, \* producer thread: local tail_next
    pcC,         \* consumer thread: position inside try_pop / empty
    c_head,      \* consumer thread: local head
    raised,      \* what the last call raised instead of returning: none, exception, terminate
    refill,      \* history: where the calls stand in a full / pop / push / push sequence
    p_nonfull,   \* producer thread: its last full() returned false, no try_push since
    c_nonempty,  \* consumer thread: its last empty() returned false, no try_pop since
    pcO,         \* a thread calling size(): position inside size
    o_head,      \* the thread calling size(): local head
    o_ret,       \* the thread calling size(): the value its last call returned
    o_base,      \* history: lengths of pushed and popped at the first load of that call
    o_mixed,     \* history: a push and a pop both completed between the two loads of that call
    o_occ        \* history: the occupancies the ring had from that first load on

ring == <<cap_, head_, tail_, buffer_, destroyed, headSeen, tailSeen>>
ghost == <<requested, viaDefault, pushed, popped, ctorCount, dtorCount, vacantDtor>>
producer == <<pcP, p_v, p_tail, p_tail_next>>
consumer == <<pcC, c_head>>
calls == <<raised, refill>>
flags == <<p_nonfull, c_nonempty>>
observer == <<pcO, o_head, o_ret, o_base, o_mixed, o_occ>>
vars == <<ring, ghost, ret, out, producer, consumer, calls, flags, observer>>

Ret(op, ok, arg, s, n) == [op |-> op, ok |-> ok, arg |-> arg, src |-> s, n |-> n]

\* ------------------------------------------------------------- construction
\* SpscRing(std::size_t cap): the slot count stored in cap_
cap_checked(cap) == IF isPow2(cap) THEN cap ELSE ceilPow2(cap)

\* the state SpscRing(cap) leaves behind
Construct(cap, dflt) ==
    /\ cap_ = cap_checked(cap)
    /\ buffer_ = [i \in 0 .. (cap_checked(cap) - 1) |-> Vacant]
    /\ head_ = 0
    /\ tail_ = 0
    /\ destroyed = FALSE
    /\ headSeen = 0
    /\ tailSeen = 0
    /\ requested = cap
    /\ viaDefault = dflt

Init ==
    /\ \/ \E cap \in Requests : Construct(cap, FALSE)
       \/ Construct(1, TRUE)
    /\ pushed = <<>>
    /\ popped = <<>>
    /\ ctorCount = 0
    /\ dtorCount = 0
    /\ vacantDtor = 0
    /\ ret = Ret("ctor", TRUE, 0, 0, 0)
    /\ out = Vacant
    /\ pcP = "idle"
    /\ p_v = 0
    /\ p_tail = 0
    /\ p_tail_next = 0
    /\ pcC = "idle"
    /\ c_head = 0
    /\ raised = "none"
    /\ refill = "none"
    /\ p_nonfull = FALSE
    /\ c_nonempty = FALSE
    /\ pcO = "idle"
    /\ o_head = 0
    /\ o_ret = 0
    /\ o_base = <<0, 0>>
    /\ o_mixed = FALSE
    /\ o_occ = {}

\* ------------------------------------------------------- index arithmetic
\* (tail + 1) & (cap_ - 1)
tail_next(tail) == BitAnd(WAdd(tail, 1), WSub(cap_, 1))

\* (head + 1) & (cap_ - 1)
head_next(head) == BitAnd(WAdd(head, 1), WSub(cap_, 1))

\* tail_next == head_.load(acquire)
ring_full(tn, head) == tn = head

\* head == tail_.load(acquire)
ring_empty(head, tail) == head = tail

\* ---------------------------------------------------------------- observers
capacity == cap_

\* variant: the difference of the counters is returned unmasked
size_nomask == WSub(tail_, head_)

\* (tail - head) & (cap_ - 1)
size == BitAnd(WSub(tail_, head_), WSub(cap_, 1))

empty == size = 0

full == tail_next(tail_) = head_

\* ------------------------------------------- whole operations (sequential)
Idle == ~destroyed /\ raised # "terminate" /\ pcP = "idle" /\ pcC = "idle"

\* history: the position in "a push fails, one pop succeeds, one push succeeds,
\* the next push fails" after a push or pop call that returned ok
refill_next(m, op, ok) ==
    IF op = "try_pop"
    THEN IF ~ok THEN m
         ELSE IF m \in {"full", "refull"} THEN "drained" ELSE "none"
    ELSE IF m = "drained" THEN (IF ok THEN "refilled" ELSE "stuck")
         ELSE IF m = "refilled" THEN (IF ok THEN "overfilled" ELSE "refull")
         ELSE IF ok THEN "none"
         ELSE IF m = "refull" THEN "refull" ELSE "full"

\* variant: the element is constructed in the slot after the one at tail
construct_at_next(buf, tail, v) == [buf EXCEPT ![tail_next(tail)] = v]

\* the slot array after std::construct_at(buffer_[tail].raw(), v)
construct_at(buf, tail, v) == [buf EXCEPT ![tail] = v]

\* variant: the object in the slot is never destroyed
destroy_at_skipped(buf, head) == buf

\* the slot array after std::destroy_at(buffer_[head].obj())
destroy_at(buf, head) == [buf EXCEPT ![head] = Vacant]

try_push(v) ==
    /\ Idle /\ Len(pushed) < MaxPush
    /\ LET tail == tail_
           tn == tail_next(tail)
       IN  IF ring_full(tn, head_)
           THEN /\ ret' = Ret("try_push", FALSE, v, v, 0)
                /\ UNCHANGED <<ring, ghost>>
           ELSE /\ buffer_' = construct_at(buffer_, tail, v)
                /\ ctorCount' = ctorCount + 1
                /\ tail_' = tn
                /\ tailSeen' = tn
                /\ pushed' = Append(pushed, v)
                /\ ret' = Ret("try_push", TRUE, v, v, 0)
                /\ UNCHANGED <<cap_, head_, destroyed, headSeen, requested,
                               viaDefault, popped, dtorCount, vacantDtor>>
    /\ UNCHANGED <<out, producer, consumer>>
    /\ raised' = "none"
    /\ refill' = refill_next(refill, ret'.op, ret'.ok)
    /\ UNCHANGED <<flags, observer>>

\* variant: the source is moved into a temporary before the full check
try_push_move_early(v) ==
    /\ Idle /\ Len(pushed) < MaxPush
    /\ LET tail == tail_
           tn == tail_next(tail)
       IN  IF ring_full(tn, head_)
           THEN /\ ret' = Ret("try_push_move", FALSE, v, MovedFrom, 0)
                /\ UNCHANGED <<ring, ghost>>
           ELSE /\ buffer_' = construct_at(buffer_, tail, v)
                /\ ctorCount' = ctorCount + 1
                /\ tail_' = tn
                /\ tailSeen' = tn
                /\ pushed' = Append(pushed, v)
                /\ ret' = Ret("try_push_move", TRUE, v, MovedFrom, 0)
                /\ UNCHANGED <<cap_, head_, destroyed, headSeen, requested,
                               viaDefault, popped, dtorCount, vacantDtor>>
    /\ UNCHANGED <<out, producer, consumer>>
    /\ raised' = "none"
    /\ refill' = refill_next(refill, ret'.op, ret'.ok)
    /\ UNCHANGED <<flags, observer>>

try_push_move(v) ==
    /\ Idle /\ Len(pushed) < MaxPush
    /\ LET tail == tail_
           tn == tail_next(tail)
       IN  IF ring_full(tn, head_)
           THEN /\ ret' = Ret("try_push_move", FALSE, v, v, 0)
                /\ UNCHANGED <<ring, ghost>>
           ELSE /\ buffer_' = construct_at(buffer_, tail, v)
                /\ ctorCount' = ctorCount + 1
                /\ tail_' = tn
                /\ tailSeen' = tn
                /\ pushed' = Append(pushed, v)
                /\ ret' = Ret("try_push_move", TRUE, v, MovedFrom, 0)
                /\ UNCHANGED <<cap_, head_, destroyed, headSeen, requested,
                               viaDefault, popped, dtorCount, vacantDtor>>
    /\ UNCHANGED <<out, producer, consumer>>
    /\ raised' = "none"
    /\ refill' = refill_next(refill, ret'.op, ret'.ok)
    /\ UNCHANGED <<flags, observer>>

try_emplace(v) ==
    /\ Idle /\ Len(pushed) < MaxPush
    /\ LET tail == tail_
           tn == tail_next(tail)
       IN  IF ring_full(tn, head_)
           THEN /\ ret' = Ret("try_emplace", FALSE, v, v, 0)
                /\ UNCHANGED <<ring, ghost>>
           ELSE /\ buffer_' = construct_at(buffer_, tail, v)
                /\ ctorCount' = ctorCount + 1
                /\ tail_' = tn
                /\ tailSeen' = tn
                /\ pushed' = Append(pushed, v)
                /\ ret' = Ret("try_emplace", TRUE, v, v, 0)
                /\ UNCHANGED <<cap_, head_, destroyed, headSeen, requested,
                               viaDefault, popped, dtorCount, vacantDtor>>
    /\ UNCHANGED <<out, producer, consumer>>
    /\ raised' = "none"
    /\ refill' = refill_next(refill, ret'.op, ret'.ok)
    /\ UNCHANGED <<flags, observer>>

\* try_push(const T&) / try_push(T&&) called with a T whose constructor throws:
\* noexcept(noexcept(T(v))) is false, the exception leaves std::construct_at
\* and the call before tail_.store; no object exists in the slot
try_push_throwing(v) ==
    /\ Idle /\ Len(pushed) < MaxPush
    /\ LET tail == tail_
           tn == tail_next(tail)
       IN  IF ring_full(tn, head_)
           THEN /\ ret' = Ret("try_push", FALSE, v, v, 0)
                /\ raised' = "none"
                /\ refill' = refill_next(refill, "try_push", FALSE)
           ELSE /\ raised' = "exception"
                /\ UNCHANGED <<ret, refill>>
    /\ UNCHANGED <<ring, ghost, out, producer, consumer, flags, observer>>

\* try_emplace(args) called with arguments for which T's constructor throws:
\* the function is declared noexcept, so the exception leaving
\* std::construct_at ends in std::terminate
try_emplace_throwing(v) ==
    /\ Idle /\ Len(pushed) < MaxPush
    /\ LET tail == tail_
           tn == tail_next(tail)
       IN  IF ring_full(tn, head_)
           THEN /\ ret' = Ret("try_emplace", FALSE, v, v, 0)
                /\ raised' = "none"
                /\ refill' = refill_next(refill, "try_emplace", FALSE)
           ELSE /\ raised' = "terminate"
                /\ UNCHANGED <<ret, refill>>
    /\ UNCHANGED <<ring, ghost, out, producer, consumer, flags, observer>>

\* variant: the slot at head is copied to out before the empty check
try_pop_read_first ==
    /\ Idle
    /\ LET head == head_
       IN  IF ring_empty(head, tail_)
           THEN /\ out' = buffer_[head]
                /\ ret' = Ret("try_pop", FALSE, 0, 0, 0)
                /\ UNCHANGED <<ring, ghost>>
           ELSE /\ out' = buffer_[head]
                /\ buffer_' = destroy_at(buffer_, head)
                /\ dtorCount' = dtorCount + 1
                /\ vacantDtor' = vacantDtor + (IF buffer_[head] = Vacant THEN 1 ELSE 0)
                /\ head_' = head_next(head)
                /\ headSeen' = head_next(head)
                /\ popped' = Append(popped, buffer_[head])
                /\ ret' = Ret("try_pop", TRUE, 0, 0, 0)
                /\ UNCHANGED <<cap_, tail_, destroyed, tailSeen, requested,
                               viaDefault, pushed, ctorCount>>
    /\ UNCHANGED <<producer, consumer>>
    /\ raised' = "none"
    /\ refill' = refill_next(refill, ret'.op, ret'.ok)
    /\ UNCHANGED <<flags, observer>>

\* variant: a pop that empties the ring sets both counters back to 0
try_pop_rewind ==
    /\ Idle
    /\ LET head == head_
       IN  IF ring_empty(head, tail_)
           THEN /\ ret' = Ret("try_pop", FALSE, 0, 0, 0)
                /\ UNCHANGED <<ring, ghost, out>>
           ELSE /\ out' = buffer_[head]
                /\ buffer_' = destroy_at(buffer_, head)
                /\ dtorCount' = dtorCount + 1
                /\ vacantDtor' = vacantDtor + (IF buffer_[head] = Vacant THEN 1 ELSE 0)
                /\ head_' = IF head_next(head) = tail_ THEN 0 ELSE head_next(head)
                /\ headSeen' = head_'
                /\ tail_' = IF head_next(head) = tail_ THEN 0 ELSE tail_
                /\ tailSeen' = tail_'
                /\ popped' = Append(popped, buffer_[head])
                /\ ret' = Ret("try_pop", TRUE, 0, 0, 0)
                /\ UNCHANGED <<cap_, destroyed, requested, viaDefault, pushed, ctorCount>>
    /\ UNCHANGED <<producer, consumer>>
    /\ raised' = "none"
    /\ refill' = refill_next(refill, ret'.op, ret'.ok)
    /\ UNCHANGED <<flags, observer>>

\* variant: a successful pop stores head back as it was
try_pop_stay ==
    /\ Idle
    /\ LET head == head_
       IN  IF ring_empty(head, tail_)
           THEN /\ ret' = Ret("try_pop", FALSE, 0, 0, 0)
                /\ UNCHANGED <<ring, ghost, out>>
           ELSE /\ out' = buffer_[head]
                /\ buffer_' = destroy_at(buffer_, head)
                /\ dtorCount' = dtorCount + 1
                /\ vacantDtor' = vacantDtor + (IF buffer_[head] = Vacant THEN 1 ELSE 0)
                /\ head_' = head
                /\ headSeen' = head
                /\ popped' = Append(popped, buffer_[head])
                /\ ret' = Ret("try_pop", TRUE, 0, 0, 0)
                /\ UNCHANGED <<cap_, tail_, destroyed, tailSeen, requested,
                               viaDefault, pushed, ctorCount>>
    /\ UNCHANGED <<producer, consumer>>
    /\ raised' = "none"
    /\ refill' = refill_next(refill, ret'.op, ret'.ok)
    /\ UNCHANGED <<flags, observer>>

try_pop ==
    /\ Idle
    /\ LET head == head_
       IN  IF ring_empty(head, tail_)
           THEN /\ ret' = Ret("try_pop", FALSE, 0, 0, 0)
                /\ UNCHANGED <<ring, ghost, out>>
           ELSE /\ out' = buffer_[head]
                /\ buffer_' = destroy_at(buffer_, head)
                /\ dtorCount' = dtorCount + 1
                /\ vacantDtor' = vacantDtor + (IF buffer_[head] = Vacant THEN 1 ELSE 0)
                /\ head_' = head_next(head)
                /\ headSeen' = head_next(head)
                /\ popped' = Append(popped, buffer_[head])
                /\ ret' = Ret("try_pop", TRUE, 0, 0, 0)
                /\ UNCHANGED <<cap_, tail_, destroyed, tailSeen, requested,
                               viaDefault, pushed, ctorCount>>
    /\ UNCHANGED <<producer, consumer>>
    /\ raised' = "none"
    /\ refill' = refill_next(refill, ret'.op, ret'.ok)
    /\ UNCHANGED <<flags, observer>>

call_capacity ==
    /\ Idle
    /\ ret' = Ret("capacity", TRUE, 0, 0, capacity)
    /\ UNCHANGED <<ring, ghost, out, producer, consumer>>
    /\ raised' = "none"
    /\ UNCHANGED <<refill, flags, observer>>

call_size ==
    /\ Idle
    /\ ret' = Ret("size", TRUE, 0, 0, size)
    /\ UNCHANGED <<ring, ghost, out, producer, consumer>>
    /\ raised' = "none"
    /\ UNCHANGED <<refill, flags, observer>>

call_empty ==
    /\ Idle
    /\ ret' = Ret("empty", empty, 0, 0, 0)
    /\ UNCHANGED <<ring, ghost, out, producer, consumer>>
    /\ raised' = "none"
    /\ UNCHANGED <<refill, flags, observer>>

call_full ==
    /\ Idle
    /\ ret' = Ret("full", full, 0, 0, 0)
    /\ UNCHANGED <<ring, ghost, out, producer, consumer>>
    /\ raised' = "none"
    /\ UNCHANGED <<refill, flags, observer>>

\* variant: the drain loop runs while (h < t)
RECURSIVE drain_lt(_, _, _, _, _)
drain_lt(h, t, buf, n, bad) ==
    IF h < t
    THEN drain_lt(head_next(h), t, destroy_at(buf, h), n + 1,
                  bad + (IF buf[h] = Vacant THEN 1 ELSE 0))
    ELSE [buf |-> buf, n |-> n, bad |-> bad]

\* while (h != t) { std::destroy_at(buffer_[h].obj()); h = (h + 1) & (cap_ - 1); }
RECURSIVE drain(_, _, _, _, _)
drain(h, t, buf, n, bad) ==
    IF h # t
    THEN drain(head_next(h), t, destroy_at(buf, h), n + 1,
               bad + (IF buf[h] = Vacant THEN 1 ELSE 0))
    ELSE [buf |-> buf, n |-> n, bad |-> bad]

\* ~SpscRing(); buffer_ is never null once a constructor has returned
destructor ==
    /\ Idle
    /\ LET d == drain(head_, tail_, buffer_, 0, 0)
       IN  /\ buffer_' = d.buf
           /\ dtorCount' = dtorCount + d.n
           /\ vacantDtor' = vacantDtor + d.bad
    /\ destroyed' = TRUE
    /\ ret' = Ret("dtor", TRUE, 0, 0, 0)
    /\ UNCHANGED <<cap_, head_, tail_, headSeen, tailSeen, requested, viaDefault,
                   pushed, popped, ctorCount, out, producer, consumer>>
    /\ raised' = "none"
    /\ UNCHANGED <<refill, flags, observer>>

Next ==
    \/ \E v \in Values : try_push(v)
    \/ \E v \in Values : try_push_move(v)
    \/ \E v \in Values : try_emplace(v)
    \/ \E v \in Values : try_push_throwing(v)
    \/ \E v \in Values : try_emplace_throwing(v)
    \/ try_pop
    \/ call_capacity
    \/ call_size
    \/ call_empty
    \/ call_full
    \/ destructor

Spec == Init /\ [][Next]_vars

\* ------------------------------------- two threads, one step per memory access
\* The producer thread calls try_push(const T&) with 1, 2, 3, ... and calls
\* again with the same value when it returns false; the consumer thread calls
\* try_pop and records out when it returns true.  A thread reads its own
\* counter exactly; its acquire load of the other thread's counter returns
\* headSeen / tailSeen, which see_head / see_tail bring up to date at any time.

\* history: the occupancies seen so far by a size() call that has done its
\* first load and not yet its second
occ_seen(occ) == IF pcO = "load_tail" THEN o_occ \cup {occ} ELSE o_occ

\* std::size_t tail = tail_.load(relaxed); std::size_t tail_next = (tail + 1) & (cap_ - 1);
p_load_tail ==
    /\ ~destroyed /\ pcP = "idle" /\ Len(pushed) < MaxPush
    /\ p_v' = Len(pushed) + 1
    /\ p_tail' = tail_
    /\ p_tail_next' = tail_next(tail_)
    /\ pcP' = "load_head"
    /\ UNCHANGED <<ring, ghost, ret, out, consumer>>
    /\ UNCHANGED <<calls, flags, observer>>

\* variant: tail_ is stored before the element is constructed
p_load_head_publish_first ==
    /\ pcP = "load_head"
    /\ IF ring_full(p_tail_next, headSeen)
       THEN pcP' = "idle" /\ tail_' = tail_
       ELSE pcP' = "construct" /\ tail_' = p_tail_next
    /\ UNCHANGED <<cap_, head_, buffer_, destroyed, headSeen, tailSeen, ghost, ret,
                   out, p_v, p_tail, p_tail_next, consumer>>
    /\ p_nonfull' = (p_nonfull /\ pcP' # "idle")
    /\ UNCHANGED <<calls, c_nonempty, observer>>

\* variant: head_ is not compared, the call always goes on to construct
p_load_head_unchecked ==
    /\ pcP = "load_head"
    /\ pcP' = "construct"
    /\ UNCHANGED <<ring, ghost, ret, out, p_v, p_tail, p_tail_next, consumer>>
    /\ UNCHANGED <<calls, flags, observer>>

\* variant: a full ring makes the call load head_ again until a slot is free
p_load_head_spin ==
    /\ pcP = "load_head"
    /\ pcP' = IF ring_full(p_tail_next, headSeen) THEN "load_head" ELSE "construct"
    /\ UNCHANGED <<ring, ghost, ret, out, p_v, p_tail, p_tail_next, consumer>>
    /\ UNCHANGED <<calls, flags, observer>>

\* if (tail_next == head_.load(acquire)) return false;
p_load_head ==
    /\ pcP = "load_head"
    /\ pcP' = IF ring_full(p_tail_next, headSeen) THEN "idle" ELSE "construct"
    /\ UNCHANGED <<ring, ghost, ret, out, p_v, p_tail, p_tail_next, consumer>>
    /\ p_nonfull' = (p_nonfull /\ pcP' # "idle")
    /\ UNCHANGED <<calls, c_nonempty, observer>>

\* std::construct_at(buffer_[tail].raw(), v);
p_construct ==
    /\ pcP = "construct"
    /\ buffer_' = construct_at(buffer_, p_tail, p_v)
    /\ ctorCount' = ctorCount + 1
    /\ pcP' = "store_tail"
    /\ UNCHANGED <<cap_, head_, tail_, destroyed, headSeen, tailSeen, requested,
                   viaDefault, pushed, popped, dtorCount, vacantDtor, ret, out,
                   p_v, p_tail, p_tail_next, consumer>>
    /\ UNCHANGED <<calls, flags, observer>>

\* tail_.store(tail_next, release); return true;
p_store_tail ==
    /\ pcP = "store_tail"
    /\ tail_' = p_tail_next
    /\ pushed' = Append(pushed, p_v)
    /\ pcP' = "idle"
    /\ UNCHANGED <<cap_, head_, buffer_, destroyed, headSeen, tailSeen, requested,
                   viaDefault, popped, ctorCount, dtorCount, vacantDtor, ret, out,
                   p_v, p_tail, p_tail_next, consumer>>
    /\ p_nonfull' = FALSE
    /\ o_occ' = occ_seen(Len(pushed') - Len(popped))
    /\ UNCHANGED <<calls, c_nonempty, pcO, o_head, o_ret, o_base, o_mixed>>

\* const std::size_t head = head_.load(relaxed);
c_load_head ==
    /\ ~destroyed /\ pcC = "idle"
    /\ c_head' = head_
    /\ pcC' = "load_tail"
    /\ UNCHANGED <<ring, ghost, ret, out, producer>>
    /\ UNCHANGED <<calls, flags, observer>>

\* if (head == tail_.load(acquire)) return false;
c_load_tail ==
    /\ pcC = "load_tail"
    /\ pcC' = IF ring_empty(c_head, tailSeen) THEN "idle" ELSE "move"
    /\ UNCHANGED <<ring, ghost, ret, out, producer, c_head>>
    /\ c_nonempty' = (c_nonempty /\ pcC' # "idle")
    /\ UNCHANGED <<calls, p_nonfull, observer>>

\* T* object = buffer_[head].obj(); out = std::move(*object);
c_move ==
    /\ pcC = "move"
    /\ out' = buffer_[c_head]
    /\ buffer_' = [buffer_ EXCEPT ![c_head] =
                      IF buffer_[c_head] = Vacant THEN Vacant ELSE MovedFrom]
    /\ pcC' = "destroy"
    /\ UNCHANGED <<cap_, head_, tail_, destroyed, headSeen, tailSeen, ghost, ret,
                   producer, c_head>>
    /\ UNCHANGED <<calls, flags, observer>>

\* std::destroy_at(object);
c_destroy ==
    /\ pcC = "destroy"
    /\ buffer_' = destroy_at(buffer_, c_head)
    /\ dtorCount' = dtorCount + 1
    /\ vacantDtor' = vacantDtor + (IF buffer_[c_head] = Vacant THEN 1 ELSE 0)
    /\ pcC' = "store_head"
    /\ UNCHANGED <<cap_, head_, tail_, destroyed, headSeen, tailSeen, requested,
                   viaDefault, pushed, popped, ctorCount, ret, out, producer, c_head>>
    /\ UNCHANGED <<calls, flags, observer>>

\* head_.store((head + 1) & (cap_ - 1), release); return true;
c_store_head ==
    /\ pcC = "store_head"
    /\ head_' = head_next(c_head)
    /\ popped' = Append(popped, out)
    /\ pcC' = "idle"
    /\ UNCHANGED <<cap_, tail_, buffer_, destroyed, headSeen, tailSeen, requested,
                   viaDefault, pushed, ctorCount, dtorCount, vacantDtor, ret, out,
                   producer, c_head>>
    /\ c_nonempty' = FALSE
    /\ o_occ' = occ_seen(Len(pushed) - Len(popped'))
    /\ UNCHANGED <<calls, p_nonfull, pcO, o_head, o_ret, o_base, o_mixed>>

\* the consumer's latest head_.store becomes visible to the producer's load
see_head ==
    /\ headSeen # head_
    /\ headSeen' = head_
    /\ UNCHANGED <<cap_, head_, tail_, buffer_, destroyed, tailSeen, ghost, ret,
                   out, producer, consumer>>
    /\ UNCHANGED <<calls, flags, observer>>

\* the producer's latest tail_.store becomes visible to the consumer's load
see_tail ==
    /\ tailSeen # tail_
    /\ tailSeen' = tail_
    /\ UNCHANGED <<cap_, head_, tail_, buffer_, destroyed, headSeen, ghost, ret,
                   out, producer, consumer>>
    /\ UNCHANGED <<calls, flags, observer>>

NextConc ==
    \/ p_load_tail
    \/ p_load_head
    \/ p_construct
    \/ p_store_tail
    \/ c_load_head
    \/ c_load_tail
    \/ c_move
    \/ c_destroy
    \/ c_store_head
    \/ see_head
    \/ see_tail

SpecConc == Init /\ [][NextConc]_vars

\* ------------------------------- the observers called while both threads run
\* The producer thread may call full() and the consumer thread empty() between
\* their operations; a further thread calls size().  The further thread's loads
\* return the latest values of both counters.

\* variant: the difference of the two loaded values is returned unmasked
size_from_unmasked(head, tail) == WSub(tail, head)

\* (tail - head) & (cap_ - 1) on the values the two loads of size() returned
size_from(head, tail) == BitAnd(WSub(tail, head), WSub(cap_, 1))

\* full(): auto t = tail_.load(relaxed); auto n = (t + 1) & (cap_ - 1);
p_full_load_tail ==
    /\ ~destroyed /\ pcP = "idle"
    /\ p_tail' = tail_
    /\ p_tail_next' = tail_next(tail_)
    /\ pcP' = "full_load_head"
    /\ UNCHANGED <<ring, ghost, ret, out, p_v, consumer, calls, flags, observer>>

\* variant: full() compares t, not (t + 1) & (cap_ - 1), with head
p_full_load_head_no_incr ==
    /\ pcP = "full_load_head"
    /\ p_nonfull' = ~ring_full(p_tail, headSeen)
    /\ pcP' = "idle"
    /\ UNCHANGED <<ring, ghost, ret, out, p_v, p_tail, p_tail_next, consumer, calls,
                   c_nonempty, observer>>

\* full(): return n == head_.load(acquire);
p_full_load_head ==
    /\ pcP = "full_load_head"
    /\ p_nonfull' = ~ring_full(p_tail_next, headSeen)
    /\ pcP' = "idle"
    /\ UNCHANGED <<ring, ghost, ret, out, p_v, p_tail, p_tail_next, consumer, calls,
                   c_nonempty, observer>>

\* empty() -> size(): std::size_t head = head_.load(acquire);
c_empty_load_head ==
    /\ ~destroyed /\ pcC = "idle"
    /\ c_head' = head_
    /\ pcC' = "empty_load_tail"
    /\ UNCHANGED <<ring, ghost, ret, out, producer, calls, flags, observer>>

\* empty() -> size(): std::size_t tail = tail_.load(acquire);
\* return (tail - head) & (cap_ - 1); return size() == 0;
c_empty_load_tail ==
    /\ pcC = "empty_load_tail"
    /\ c_nonempty' = (size_from(c_head, tailSeen) # 0)
    /\ pcC' = "idle"
    /\ UNCHANGED <<ring, ghost, ret, out, producer, c_head, calls, p_nonfull, observer>>

\* size(): std::size_t head = head_.load(acquire);
o_load_head ==
    /\ ~destroyed /\ pcO = "idle"
    /\ o_head' = head_
    /\ o_base' = <<Len(pushed), Len(popped)>>
    /\ o_occ' = {Len(pushed) - Len(popped)}
    /\ pcO' = "load_tail"
    /\ UNCHANGED <<ring, ghost, ret, out, producer, consumer, calls, flags, o_ret, o_mixed>>

\* size(): std::size_t tail = tail_.load(acquire); the value to return is computed
o_load_tail ==
    /\ pcO = "load_tail"
    /\ o_ret' = size_from(o_head, tail_)
    /\ o_mixed' = (Len(pushed) > o_base[1] /\ Len(popped) > o_base[2])
    /\ pcO' = "return"
    /\ UNCHANGED <<ring, ghost, ret, out, producer, consumer, calls, flags, o_head,
                   o_base, o_occ>>

\* size(): return (tail - head) & (cap_ - 1); the caller is free to call again
o_return ==
    /\ pcO = "return"
    /\ pcO' = "idle"
    /\ o_head' = 0
    /\ o_base' = <<0, 0>>
    /\ o_mixed' = FALSE
    /\ o_occ' = {}
    /\ UNCHANGED <<ring, ghost, ret, out, producer, consumer, calls, flags, o_ret>>

\* the steps a thread takes inside a call it has begun
producer_step == p_load_head \/ p_construct \/ p_store_tail \/ p_full_load_head
consumer_step == c_load_tail \/ c_move \/ c_destroy \/ c_store_head \/ c_empty_load_tail
observer_step == o_load_tail \/ o_return

\* the two threads, each also calling the predicate it owns
NextOwner ==
    \/ p_load_tail
    \/ p_load_head
    \/ p_construct
    \/ p_store_tail
    \/ c_load_head
    \/ c_load_tail
    \/ c_move
    \/ c_destroy
    \/ c_store_head
    \/ see_head
    \/ see_tail
    \/ p_full_load_tail
    \/ p_full_load_head
    \/ c_empty_load_head
    \/ c_empty_load_tail

SpecOwner == Init /\ [][NextOwner]_vars

\* the two threads and a thread calling size()
NextSize ==
    \/ p_load_tail
    \/ p_load_head
    \/ p_construct
    \/ p_store_tail
    \/ c_load_head
    \/ c_load_tail
    \/ c_move
    \/ c_destroy
    \/ c_store_head
    \/ see_head
    \/ see_tail
    \/ o_load_head
    \/ o_load_tail
    \/ o_return

SpecSize == Init /\ [][NextSize]_vars

\* ------------------------------------------------ BitOps called on any word
\* BitOps::ceilPow2(v) for an unsigned word v, called once
call_ceilPow2(v) ==
    /\ ret.op = "ctor"
    /\ ret' = Ret("ceilPow2", TRUE, v, 0, ceilPow2(v))
    /\ UNCHANGED <<ring, ghost, out, producer, consumer, calls, flags, observer>>

NextBits == \E v \in 0 .. (Word - 1) : call_ceilPow2(v)

SpecBits == Init /\ [][NextBits]_vars

\* ----------------------------------------------- the two threads, scheduled
\* each thread keeps being scheduled, and a stored counter value becomes
\* visible to the other thread's acquire load in finite time
producer_conc == p_load_tail \/ p_load_head \/ p_construct \/ p_store_tail
consumer_conc == c_load_head \/ c_load_tail \/ c_move \/ c_destroy \/ c_store_head

SpecFair ==
    /\ Init
    /\ [][NextConc]_vars
    /\ WF_vars(producer_conc)
    /\ WF_vars(consumer_conc)
    /\ WF_vars(see_head)
    /\ WF_vars(see_tail)

\* ------------------------------------------------------------- properties
PushOps == {"try_push", "try_push_move", "try_emplace"}

FailedPush == ret.op \in PushOps /\ ~ret.ok

\* C1. FIFO order: the values the successful try_pop calls returned are the
\* values of the successful pushes, in the order they were pushed, also after
\* head and tail have wrapped around the slot array.
FifoOrder ==
    /\ Len(popped) <= Len(pushed)
    /\ \A i \in 1 .. Len(popped) : popped[i] = pushed[i]
    /\ (ret.op = "try_pop" /\ ret.ok) => out = pushed[Len(popped)]

\* head has gone round a two-slot ring twice and both values came out
FifoWrapped ==
    /\ cap_ = 2
    /\ Len(popped) >= 4
    /\ \E i \in 1 .. Len(popped) : \E j \in 1 .. Len(popped) : popped[i] # popped[j]

\* C2. Concurrent stream integrity: with the producer pushing 1, 2, 3, ... and
\* the consumer recording what it pops, the record is at every moment a prefix
\* of the values pushed: increasing by one, no duplicate, no gap, nothing that
\* was never pushed.
StreamIntegrity ==
    /\ \A i \in 1 .. Len(pushed) : pushed[i] = i
    /\ Len(popped) <= Len(pushed)
    /\ \A i \in 1 .. Len(popped) : popped[i] = i

\* the producer constructs in a slot it has wrapped round to while the
\* consumer moves an element out of a slot further on
StreamOverlap ==
    /\ cap_ = 4
    /\ Len(popped) >= 3
    /\ pcP = "construct"
    /\ pcC = "move"
    /\ p_tail < c_head

\* C3. For every requested capacity r, capacity() returns ceilPow2(r + 1) - 1,
\* the usable slot count without the sentinel slot, and that is at least 1.
CapacityExcludesSentinel ==
    ret.op = "capacity" =>
        /\ ret.n = ceilPow2(requested + 1) - 1
        /\ ret.n >= 1

\* C4. Saturation: on a fresh ring with no pops exactly capacity() pushes
\* succeed; the next push returns false and constructs nothing.
Saturation ==
    popped = <<>> =>
        /\ Len(pushed) <= capacity
        /\ ctorCount = Len(pushed)
        /\ FailedPush => Len(pushed) = capacity

\* C5. A ring requested with capacity 0 has at least 2 slots and holds exactly
\* one element: the first push succeeds, a second one without a pop fails.
ZeroRequestHoldsOne ==
    (requested = 0 /\ ~viaDefault) =>
        /\ cap_ >= 2
        /\ popped = <<>> => Len(pushed) <= 1
        /\ (popped = <<>> /\ FailedPush) => Len(pushed) = 1

\* C6. Full and empty are unambiguous: no ring a constructor produces is ever
\* empty() and full() at the same time.
FullEmptyExclusive == ~(empty /\ full)

\* C7. Occupancy: (tail - head) mod the slot count is the number of successful
\* pushes minus the number of successful pops, lies in 0 .. slot count - 1, and
\* is what size() returns between operations.
Occupancy ==
    LET occ == (tail_ - head_) % cap_
    IN  /\ occ = Len(pushed) - Len(popped)
        /\ occ >= 0 /\ occ <= cap_ - 1
        /\ size = occ
        /\ ret.op = "size" => ret.n = occ

\* size() was called with tail behind head as array positions
OccupancyWrapped ==
    /\ ret.op = "size"
    /\ tail_ < head_
    /\ ret.n >= 2

\* C8. Destructor completeness: destroying the ring destroys every element
\* pushed and not popped exactly once and no vacant slot, so the ring's
\* destructions equal its constructions.
DestructorComplete ==
    /\ vacantDtor = 0
    /\ destroyed =>
        /\ dtorCount = ctorCount
        /\ \A i \in DOMAIN buffer_ : buffer_[i] = Vacant

\* the destructor drained a live range that wraps past the end of the array
DestructorWrapped ==
    /\ destroyed
    /\ tail_ < head_
    /\ dtorCount - Len(popped) >= 2

\* C9. A failed push changes nothing: it happens on a full ring, returns
\* false, leaves head, tail and the slots as they were, constructs nothing and
\* leaves the caller's source value as it was (not moved from).
FailedPushChangesNothing ==
    [][(ret'.op \in PushOps /\ ~ret'.ok) =>
          /\ full
          /\ UNCHANGED <<head_, tail_, buffer_, ctorCount, dtorCount, pushed, popped>>
          /\ ret'.src = ret'.arg]_vars

\* the move overload was refused by a full ring that holds elements
FailedMovePush ==
    /\ ret.op = "try_push_move"
    /\ ~ret.ok
    /\ ret.src = ret.arg
    /\ cap_ >= 2
    /\ full

\* C10. A failed pop changes nothing: it happens when head == tail, returns
\* false, leaves out, head, tail and the slots as they were and destroys nothing.
FailedPopChangesNothing ==
    [][(ret'.op = "try_pop" /\ ~ret'.ok) =>
          /\ head_ = tail_
          /\ UNCHANGED <<out, head_, tail_, buffer_, ctorCount, dtorCount, pushed, popped>>]_vars

\* a pop was refused by a ring that has been drained, out still holds a value
FailedPopAfterDrain ==
    /\ ret.op = "try_pop"
    /\ ~ret.ok
    /\ Len(popped) > 0
    /\ out = popped[Len(popped)]

\* C11. Construction-failure atomicity: when constructing the element fails in
\* a push or emplace, the caller gets the failure (the process is not
\* terminated), tail is not advanced, no slot becomes live and nothing the
\* consumer can pop has changed.
ConstructionFailureSurfaced ==
    [][raised' # "none" =>
          /\ raised' = "exception"
          /\ UNCHANGED <<head_, tail_, buffer_, pushed, popped, ctorCount>>]_vars

\* C12. Drain-then-refill: once a push has failed on a full ring, after exactly
\* one successful pop exactly one further push succeeds and the push after
\* that fails again.
DrainThenRefill == refill \notin {"stuck", "overfilled"}

\* full, one pop, one push accepted, the next push refused, on a four-slot ring
RefilledAndFullAgain ==
    /\ refill = "refull"
    /\ cap_ >= 4
    /\ FailedPush

\* the number of steps a call has left at most, by the position inside it
steps_left(pc) ==
    CASE pc = "idle" -> 0
      [] pc \in {"store_tail", "full_load_head", "store_head", "empty_load_tail"} -> 1
      [] pc \in {"construct", "destroy"} -> 2
      [] pc \in {"load_head", "move"} -> 3
      [] pc = "load_tail" -> 4

\* the iterations of the destructor's drain loop from (h, t), -1 if it has
\* not ended after fuel iterations
RECURSIVE drain_iters(_, _, _)
drain_iters(h, t, fuel) ==
    IF h = t THEN 0
    ELSE IF fuel = 0 THEN -1
    ELSE LET r == drain_iters(head_next(h), t, fuel - 1)
         IN  IF r < 0 THEN -1 ELSE r + 1

\* C13. Non-blocking: a thread inside try_push, try_pop, full or empty (which
\* runs size) always has a step of its own to take, whatever the other thread
\* is doing, and each step leaves fewer steps to the return; the destructor's
\* drain loop ends from every reachable (head, tail) within cap_ iterations.
NonBlocking ==
    /\ [](pcP # "idle" => ENABLED <<producer_step>>_vars)
    /\ [](pcC # "idle" => ENABLED <<consumer_step>>_vars)
    /\ [][(pcP # "idle" /\ pcP' # pcP) => steps_left(pcP') < steps_left(pcP)]_vars
    /\ [][(pcC # "idle" /\ pcC' # pcC) => steps_left(pcC') < steps_left(pcC)]_vars
    /\ [](drain_iters(head_, tail_, cap_) >= 0)

\* the producer is about to find the ring full while the consumer has stopped
\* in the middle of a pop
FullWhileConsumerMidPop ==
    /\ pcP = "load_head"
    /\ ring_full(p_tail_next, headSeen)
    /\ pcC = "destroy"
    /\ tail_ < head_

\* C14. Slot ownership: in every interleaving the producer constructs only in
\* a vacant slot, the consumer moves from and destroys only a slot whose
\* element was constructed and published by the tail store, and the two
\* threads never work on the same slot at the same time.
SlotOwnership ==
    /\ pcP = "construct" => buffer_[p_tail] = Vacant
    /\ pcC = "move" =>
          /\ Len(pushed) > Len(popped)
          /\ buffer_[c_head] = pushed[Len(popped) + 1]
    /\ pcC = "destroy" => buffer_[c_head] = MovedFrom
    /\ (pcP \in {"construct", "store_tail"} /\ pcC \in {"move", "destroy", "store_head"})
          => p_tail # c_head

\* the producer constructs in a slot it has wrapped round to while the
\* consumer destroys the element of another slot
SlotsInUseTogether ==
    /\ pcP = "construct"
    /\ pcC = "destroy"
    /\ p_tail < c_head

\* slot i lies in [head, tail) modulo the slot count
in_live_range(i) == ((i - head_) % cap_) < ((tail_ - head_) % cap_)

\* C15. Slot liveness matches the indices: while neither thread is inside a
\* push or a pop, a slot holds a constructed, not yet destroyed value exactly
\* if its index lies in [head, tail) modulo the slot count.
LiveIffInRange ==
    (pcP = "idle" /\ pcC = "idle") =>
        \A i \in DOMAIN buffer_ : (buffer_[i] # Vacant) <=> in_live_range(i)

\* both threads are between calls and the live range wraps past the array end
LiveRangeWrapped ==
    /\ pcP = "idle"
    /\ pcC = "idle"
    /\ tail_ < head_
    /\ Len(pushed) - Len(popped) >= 2
    /\ Len(popped) >= 3

ObserverOps == {"capacity", "size", "empty", "full"}

\* C16. Single writer per counter: only a successful push changes tail and only
\* a successful pop changes head, each by one step modulo the slot count; no
\* push form writes head, try_pop does not write tail, and size, empty, full
\* and capacity write neither counter and no slot.
SingleWriter ==
    [][/\ tail_' # tail_ => (pushed' # pushed /\ ret'.op \in PushOps /\ ret'.ok)
       /\ head_' # head_ => (popped' # popped /\ ret'.op = "try_pop" /\ ret'.ok)
       /\ pushed' # pushed => (tail_' = (tail_ + 1) % cap_ /\ head_' = head_)
       /\ popped' # popped => (head_' = (head_ + 1) % cap_ /\ tail_' = tail_)
       /\ (ret' # ret /\ ret'.op \in PushOps) => head_' = head_
       /\ (ret' # ret /\ ret'.op = "try_pop") => tail_' = tail_
       /\ (ret' # ret /\ ret'.op \in ObserverOps) => UNCHANGED <<head_, tail_, buffer_>>]_vars

\* a pop has just emptied a ring whose head went round past the array end
PopEmptiedWrappedRing ==
    /\ ret.op = "try_pop"
    /\ ret.ok
    /\ head_ = tail_
    /\ head_ # 0
    /\ Len(popped) > cap_
    /\ cap_ >= 2

\* C17. Owner-side predicates are authoritative: after empty() returned false
\* to the consumer its next try_pop succeeds, and after full() returned false
\* to the producer its next try_push succeeds, whatever the other thread does
\* in between.
OwnerPredicatesHold ==
    [][/\ ~(c_nonempty /\ pcC = "load_tail" /\ pcC' = "idle")
       /\ ~(p_nonfull /\ pcP = "load_head" /\ pcP' = "idle")]_vars

\* both threads go on with the operation their predicate promised, on a ring
\* whose indices have wrapped
BothPromisesKept ==
    /\ c_nonempty
    /\ pcC = "move"
    /\ p_nonfull
    /\ pcP = "construct"
    /\ p_tail < c_head

\* n is a power of two that fits a word
is_power_of_two(n) == \E k \in 0 .. (WordBits - 1) : n = 2 ^ k

\* n is the smallest power of two >= v
smallest_power_of_two(n, v) ==
    /\ is_power_of_two(n)
    /\ n >= v
    /\ \A k \in 0 .. (WordBits - 1) : 2 ^ k >= v => n <= 2 ^ k

\* C18 as claimed. ceilPow2(v) is the smallest power of two >= v for every
\* unsigned word v, 1 for v = 0 and v = 1, never 0 and never below v.
CeilPow2Total ==
    ret.op = "ceilPow2" =>
        /\ smallest_power_of_two(ret.n, ret.arg)
        /\ ret.n # 0
        /\ ret.n >= ret.arg

\* C18 as amended. ceilPow2(v) is the smallest power of two >= v for every v
\* up to the highest power of two a word holds (1 for v = 0 and v = 1); above
\* it v + 1 wraps and the result is 0.
CeilPow2UpToTopBit ==
    ret.op = "ceilPow2" =>
        IF ret.arg <= 2 ^ (WordBits - 1)
        THEN smallest_power_of_two(ret.n, ret.arg)
        ELSE ret.n = 0

\* ceilPow2 was called above the highest power of two of a word
CeilPow2AboveTopBit ==
    /\ ret.op = "ceilPow2"
    /\ ret.arg > 2 ^ (WordBits - 1)
    /\ ret.n = 0

\* C19. Progress: with both threads retrying under weak fairness, every value
\* the producer has to push is eventually popped, on every ring a constructor
\* produces.
AllValuesPopped == <>(Len(popped) = MaxPush)

====
